---------------------------- MODULE Spec2Model ----------------------------
(***************************************************************************)
(* Order Parser - SKU Quantity Summarizer (src/app.py).                    *)
(*                                                                         *)
(* Text is modelled as a sequence of one-character strings, so that exact  *)
(* equality ("x in columns"), substring containment ("x in columns_str"),  *)
(* concatenation (' '.join) and the ordering of str values (code point by  *)
(* code point) are computed, not assumed.                                  *)
(*                                                                         *)
(* A column label is a text.  A cell is a record: Text(s), Num(x10) (the   *)
(* number x10/10, so that fractional quantities exist) or NaN (a blank     *)
(* cell as pandas reads it).                                               *)
(***************************************************************************)
EXTENDS Integers, Sequences, FiniteSets, TLC

(***************************************************************************)
(* Bounds of the model.                                                    *)
(***************************************************************************)
\* longest header (number of columns) given to the header functions
MaxCols == 2
\* most data rows of a table given to process_file
MaxRows == 3
\* most data rows after the two leading rows of an uploaded file
MaxDataRows == 1
\* largest quantity a user types into the editor
MaxEditQty == 2

(***************************************************************************)
(* Text literals of the source.                                            *)
(***************************************************************************)
NoPesanan == \* "No. Pesanan"
    <<"N","o","."," ","P","e","s","a","n","a","n">>
NomorReferensiSKU == \* "Nomor Referensi SKU"
    <<"N","o","m","o","r"," ","R","e","f","e","r","e","n","s","i"," ","S","K","U">>
StatusPesanan == \* "Status Pesanan"
    <<"S","t","a","t","u","s"," ","P","e","s","a","n","a","n">>
Jumlah == \* "Jumlah"
    <<"J","u","m","l","a","h">>
SellerSKU == \* "Seller SKU"
    <<"S","e","l","l","e","r"," ","S","K","U">>
OrderID == \* "Order ID"
    <<"O","r","d","e","r"," ","I","D">>
SellerSkuInput == \* "Seller sku input by the seller"
    <<"S","e","l","l","e","r"," ","s","k","u"," ","i","n","p","u","t"," ","b","y"," ","t","h","e"," ","s","e","l","l","e","r">>
SKUSoldQuantity == \* "SKU sold quantity"
    <<"S","K","U"," ","s","o","l","d"," ","q","u","a","n","t","i","t","y">>
Quantity == \* "Quantity"
    <<"Q","u","a","n","t","i","t","y">>
LongSkuCol == \* "Seller sku input by the seller in the product system."
    <<"S","e","l","l","e","r"," ","s","k","u"," ","i","n","p","u","t"," ","b","y"," ","t","h","e"," ","s","e","l","l","e","r"," ","i","n"," ","t","h","e"," ","p","r","o","d","u","c","t"," ","s","y","s","t","e","m",".">>
LongQtyCol == \* "SKU sold quantity in the order."
    <<"S","K","U"," ","s","o","l","d"," ","q","u","a","n","t","i","t","y"," ","i","n"," ","t","h","e"," ","o","r","d","e","r",".">>

\* shopee_indicators, in the order the code lists them
shopee_indicators == <<NoPesanan, NomorReferensiSKU, StatusPesanan, Jumlah>>
\* tiktok_indicators, in the order the code lists them
tiktok_indicators == <<SellerSKU, OrderID, SellerSkuInput, SKUSoldQuantity>>

(***************************************************************************)
(* Column labels that occur in the inputs only.                            *)
(***************************************************************************)
Seller == \* "Seller"
    <<"S","e","l","l","e","r">>
SKU == \* "SKU"
    <<"S","K","U">>
JumlahProduk == \* "Jumlah Produk"
    <<"J","u","m","l","a","h"," ","P","r","o","d","u","k">>
NamaProduk == \* "Nama Produk"
    <<"N","a","m","a"," ","P","r","o","d","u","k">>
PlatformOrderId == \* "Platform unique order ID."
    <<"P","l","a","t","f","o","r","m"," ","u","n","i","q","u","e"," ","o","r","d","e","r"," ","I","D",".">>
MyOrderID == \* "My Order ID"
    <<"M","y"," ","O","r","d","e","r"," ","I","D">>

(***************************************************************************)
(* Operations of str and list.                                             *)
(***************************************************************************)
\* x in xs, for a list xs: some element equals x
InList(x, xs) == \E i \in DOMAIN xs : xs[i] = x

\* p in s, for two str values: p occurs in s as a contiguous run
InStr(p, s) ==
    \E k \in 0..(Len(s) - Len(p)) : SubSeq(s, k + 1, k + Len(p)) = p

\* ' '.join(parts)
RECURSIVE JoinSpace(_)
JoinSpace(parts) ==
    IF Len(parts) = 0 THEN <<>>
    ELSE IF Len(parts) = 1 THEN parts[1]
    ELSE parts[1] \o <<" ">> \o JoinSpace(Tail(parts))

(***************************************************************************)
(* detect_platform(df): "shopee", "tiktok" or "None".                      *)
(***************************************************************************)
\* the TikTok indicators tested against the column list, as the Shopee ones are
detect_platform_tiktok_exact(columns) ==
    IF \E i \in DOMAIN shopee_indicators : InList(shopee_indicators[i], columns)
    THEN "shopee"
    ELSE IF \E i \in DOMAIN tiktok_indicators : InList(tiktok_indicators[i], columns)
    THEN "tiktok"
    ELSE "None"

\* the TikTok test made before the Shopee test
detect_platform_tiktok_first(columns) ==
    LET columns_str == JoinSpace(columns) IN
    IF \E i \in DOMAIN tiktok_indicators : InStr(tiktok_indicators[i], columns_str)
    THEN "tiktok"
    ELSE IF \E i \in DOMAIN shopee_indicators : InList(shopee_indicators[i], columns)
    THEN "shopee"
    ELSE "None"

\* the Shopee indicators tested as substrings of the joined text
detect_platform_shopee_substring(columns) ==
    LET columns_str == JoinSpace(columns) IN
    IF \E i \in DOMAIN shopee_indicators : InStr(shopee_indicators[i], columns_str)
    THEN "shopee"
    ELSE IF \E i \in DOMAIN tiktok_indicators : InStr(tiktok_indicators[i], columns_str)
    THEN "tiktok"
    ELSE "None"

detect_platform(columns) ==
    LET columns_str == JoinSpace(columns) IN
    IF \E i \in DOMAIN shopee_indicators : InList(shopee_indicators[i], columns)
    THEN "shopee"
    ELSE IF \E i \in DOMAIN tiktok_indicators : InStr(tiktok_indicators[i], columns_str)
    THEN "tiktok"
    ELSE "None"

(***************************************************************************)
(* get_column_mapping(platform, columns): a mapping, or None.              *)
(***************************************************************************)
Mapping(s, q) == [some |-> TRUE, sku |-> s, quantity |-> q]
NoMapping == [some |-> FALSE, sku |-> <<>>, quantity |-> <<>>]

ShopeeMapping == Mapping(NomorReferensiSKU, Jumlah)
ShortMapping == Mapping(SellerSKU, Quantity)
LongMapping == Mapping(LongSkuCol, LongQtyCol)

\* the long form chosen when its columns are there, the short form otherwise
get_column_mapping_long_first(platform, columns) ==
    IF platform = "shopee" THEN ShopeeMapping
    ELSE IF platform = "tiktok" THEN
        IF InList(LongSkuCol, columns) \/ ~InList(SellerSKU, columns)
        THEN LongMapping ELSE ShortMapping
    ELSE NoMapping

\* Shopee resolved only when both of its columns are in the header
get_column_mapping_checked(platform, columns) ==
    IF platform = "shopee" THEN
        IF InList(NomorReferensiSKU, columns) /\ InList(Jumlah, columns)
        THEN ShopeeMapping ELSE NoMapping
    ELSE IF platform = "tiktok" THEN
        IF InList(SellerSKU, columns) THEN ShortMapping ELSE LongMapping
    ELSE NoMapping

\* The loop of lines 78-82 binds sku_col and qty_col, which nothing reads:
\* it changes no result and is left out.
get_column_mapping(platform, columns) ==
    IF platform = "shopee" THEN ShopeeMapping
    ELSE IF platform = "tiktok" THEN
        IF InList(SellerSKU, columns) THEN ShortMapping ELSE LongMapping
    ELSE NoMapping

(***************************************************************************)
(* Cells of a table.                                                       *)
(***************************************************************************)
Text(s) == [t |-> "text", s |-> s, x10 |-> 0]
\* the number n/10
Num(n) == [t |-> "num", s |-> <<>>, x10 |-> n]
NaN == [t |-> "nan", s |-> <<>>, x10 |-> 0]

Digits == <<"0","1","2","3","4","5","6","7","8","9">>
IsDigit(c) == InList(c, Digits)
DigitVal(c) == (CHOOSE i \in DOMAIN Digits : Digits[i] = c) - 1
AllDigits(s) == \A i \in DOMAIN s : IsDigit(s[i])

\* the value of a run of decimal digits
RECURSIVE DecimalVal(_)
DecimalVal(s) ==
    IF Len(s) = 0 THEN 0
    ELSE 10 * DecimalVal(SubSeq(s, 1, Len(s) - 1)) + DigitVal(s[Len(s)])

\* the text of a decimal number without its sign: digits with at most one
\* point among them, and at least one digit.  (The texts of the model hold
\* no blanks, exponents or words such as "inf".)
IsUnsignedDecimal(s) ==
    \/ Len(s) > 0 /\ AllDigits(s)
    \/ \E k \in DOMAIN s :
          /\ s[k] = "."
          /\ Len(s) > 1
          /\ AllDigits(SubSeq(s, 1, k - 1))
          /\ AllDigits(SubSeq(s, k + 1, Len(s)))

\* its value in tenths (digits past the first decimal are dropped: the
\* inputs of the model carry at most one)
UnsignedX10(s) ==
    IF AllDigits(s) THEN 10 * DecimalVal(s)
    ELSE LET k == CHOOSE k \in DOMAIN s : s[k] = "." IN
         10 * DecimalVal(SubSeq(s, 1, k - 1))
           + (IF k < Len(s) THEN DigitVal(s[k + 1]) ELSE 0)

\* pd.to_numeric(cell, errors="coerce"): a number, or NaN for what does not
\* parse
to_numeric(cell) ==
    IF cell.t = "num" THEN cell
    ELSE IF cell.t = "nan" THEN NaN
    ELSE LET s == cell.s IN
         IF Len(s) > 0 /\ s[1] \in {"-", "+"} THEN
             IF IsUnsignedDecimal(Tail(s))
             THEN Num((IF s[1] = "-" THEN -1 ELSE 1) * UnsignedX10(Tail(s)))
             ELSE NaN
         ELSE IF IsUnsignedDecimal(s) THEN Num(UnsignedX10(s))
         ELSE NaN

\* .fillna(0)
fillna0(cell) == IF cell.t = "nan" THEN Num(0) ELSE cell

\* .astype(int) of a number: the fraction is cut off, towards zero
astype_int(cell) ==
    IF cell.x10 >= 0 THEN cell.x10 \div 10 ELSE -((-cell.x10) \div 10)

\* what does not parse counted as 1: .fillna(1)
coerce_quantity_fill_one(cell) ==
    LET n == to_numeric(cell) IN
    astype_int(IF n.t = "nan" THEN Num(10) ELSE n)

\* line 112, for one cell
coerce_quantity(cell) == astype_int(fillna0(to_numeric(cell)))

(***************************************************************************)
(* The order of str values: code point by code point, a proper prefix      *)
(* first.                                                                  *)
(***************************************************************************)
Upper ==
    <<"A","B","C","D","E","F","G","H","I","J","K","L","M",
      "N","O","P","Q","R","S","T","U","V","W","X","Y","Z">>
Lower ==
    <<"a","b","c","d","e","f","g","h","i","j","k","l","m",
      "n","o","p","q","r","s","t","u","v","w","x","y","z">>
IndexIn(c, xs) == CHOOSE i \in DOMAIN xs : xs[i] = c
\* ord(c), for the characters the inputs are written in
Ord(c) ==
    IF InList(c, Digits) THEN 47 + IndexIn(c, Digits)
    ELSE IF InList(c, Upper) THEN 64 + IndexIn(c, Upper)
    ELSE IF InList(c, Lower) THEN 96 + IndexIn(c, Lower)
    ELSE IF c = " " THEN 32
    ELSE IF c = "+" THEN 43
    ELSE IF c = "-" THEN 45
    ELSE IF c = "." THEN 46
    ELSE 95 \* "_"

\* a < b for two str values
RECURSIVE StrLess(_, _)
StrLess(a, b) ==
    IF Len(b) = 0 THEN FALSE
    ELSE IF Len(a) = 0 THEN TRUE
    ELSE IF a[1] = b[1] THEN StrLess(Tail(a), Tail(b))
    ELSE Ord(a[1]) < Ord(b[1])

(***************************************************************************)
(* process_file(df, platform, col_mapping).                                *)
(* df is [columns |-> labels, rows |-> rows of cells, one per column].     *)
(* The summary is a sequence of [sku |-> text, qty |-> integer]: the       *)
(* columns the code renames to 'Seller SKU' and 'Quantity'.  The SKU cells *)
(* of the inputs are text or blank (a SKU is text).                        *)
(***************************************************************************)
Table(rows) == [some |-> TRUE, rows |-> rows]
NoTable == [some |-> FALSE, rows |-> <<>>]
NoError == [kind |-> "none", col |-> <<>>]
\* f"SKU column '{sku_col}' not found in the file."
SkuColumnNotFound(col) == [kind |-> "SKU column not found", col |-> col]
\* f"Quantity column '{qty_col}' not found in the file."
QuantityColumnNotFound(col) == [kind |-> "Quantity column not found", col |-> col]

\* df[label], one cell per row
ColumnOf(df, label) ==
    LET i == IndexIn(label, df.columns) IN
    [r \in DOMAIN df.rows |-> df.rows[r][i]]

\* only missing SKUs filtered out, empty text kept
keep_sku_notna_only(cell) == cell.t # "nan"

\* line 116, for one cell: notna() & (!= '')
keep_sku(cell) == cell.t # "nan" /\ ~(cell.t = "text" /\ cell.s = <<>>)

\* df_filtered[mask]: the rows whose SKU cell passes, in order
RECURSIVE FilterSku(_)
FilterSku(rows) ==
    IF Len(rows) = 0 THEN <<>>
    ELSE (IF keep_sku(rows[1].cell) THEN <<rows[1]>> ELSE <<>>)
           \o FilterSku(Tail(rows))

\* the sum of the qty of the rows whose sku is key
RECURSIVE SumOfGroup(_, _)
SumOfGroup(rows, key) ==
    IF Len(rows) = 0 THEN 0
    ELSE (IF rows[1].sku = key THEN rows[1].qty ELSE 0)
           + SumOfGroup(Tail(rows), key)

\* the texts of a set, in ascending order
RECURSIVE Ascending(_)
Ascending(S) ==
    IF S = {} THEN <<>>
    ELSE LET m == CHOOSE x \in S : \A y \in S \ {x} : StrLess(x, y) IN
         <<m>> \o Ascending(S \ {m})

\* groups keyed by the SKU with its blanks cut off, as .str.strip() would
RECURSIVE Strip(_)
Strip(s) ==
    IF Len(s) > 0 /\ s[1] = " " THEN Strip(Tail(s))
    ELSE IF Len(s) > 0 /\ s[Len(s)] = " " THEN Strip(SubSeq(s, 1, Len(s) - 1))
    ELSE s
groupby_sum_stripped(rows) ==
    LET stripped == [i \in DOMAIN rows |-> [sku |-> Strip(rows[i].sku), qty |-> rows[i].qty]]
        keys == Ascending({stripped[i].sku : i \in DOMAIN rows})
    IN [k \in DOMAIN keys |-> [sku |-> keys[k], qty |-> SumOfGroup(stripped, keys[k])]]

\* .groupby(sku_col)[qty_col].sum().reset_index(): one row per distinct
\* SKU, the keys in ascending order (sort=True is the default)
groupby_sum(rows) ==
    LET keys == Ascending({rows[i].sku : i \in DOMAIN rows}) IN
    [k \in DOMAIN keys |-> [sku |-> keys[k], qty |-> SumOfGroup(rows, keys[k])]]

\* a row put into an ascending sequence, at its place
InsertBySku(r, sorted) ==
    LET n == Cardinality({i \in DOMAIN sorted : ~StrLess(r.sku, sorted[i].sku)}) IN
    SubSeq(sorted, 1, n) \o <<r>> \o SubSeq(sorted, n + 1, Len(sorted))

RECURSIVE SortAscending(_)
SortAscending(rows) ==
    IF Len(rows) <= 1 THEN rows
    ELSE InsertBySku(rows[1], SortAscending(Tail(rows)))

Reverse(xs) == [i \in DOMAIN xs |-> xs[Len(xs) + 1 - i]]

\* sorted with ascending=False
sort_values_descending(rows) == Reverse(SortAscending(rows))

\* .sort_values(by=sku_col)
sort_values(rows) == SortAscending(rows)

ProcessResult(t, e) == [grouped |-> t, error |-> e]

process_file(df, platform, col_mapping) ==
    LET sku_col == col_mapping.sku
        qty_col == col_mapping.quantity
    IN
    IF ~InList(sku_col, df.columns)
    THEN ProcessResult(NoTable, SkuColumnNotFound(sku_col))
    ELSE IF ~InList(qty_col, df.columns)
    THEN ProcessResult(NoTable, QuantityColumnNotFound(qty_col))
    ELSE
        LET skus == ColumnOf(df, sku_col)
            qtys == ColumnOf(df, qty_col)
            two == [r \in DOMAIN df.rows |->
                      [cell |-> skus[r], qty |-> coerce_quantity(qtys[r])]]
            kept == FilterSku(two)
            df_filtered == [r \in DOMAIN kept |->
                              [sku |-> kept[r].cell.s, qty |-> kept[r].qty]]
            grouped == sort_values(groupby_sum(df_filtered))
        IN ProcessResult(Table(grouped), NoError)

(***************************************************************************)
(* State.                                                                  *)
(*   pc              where the run of the script is                        *)
(*   file            the uploaded sheet: its rows of cells, top row first  *)
(*   df              the table handed to get_column_mapping, process_file  *)
(*   platform        detect_platform's result                              *)
(*   col_mapping     get_column_mapping's result                           *)
(*   grouped         process_file's table                                  *)
(*   error           what st.error reports, or process_file's error        *)
(*   edited_grouped  st.data_editor's table                                *)
(*   calls           the functions the run has called                      *)
(***************************************************************************)
VARIABLES pc, file, df, platform, col_mapping, grouped, error,
          edited_grouped, calls

vars == <<pc, file, df, platform, col_mapping, grouped, error,
          edited_grouped, calls>>

EmptyDf == [columns |-> <<>>, rows |-> <<>>]

\* all sequences over S of length n, and of length at most n
SeqsOfLen(S, n) == [1..n -> S]
SeqsUpTo(S, n) == UNION {SeqsOfLen(S, k) : k \in 0..n}
NoDuplicates(xs) == \A i, j \in DOMAIN xs : i # j => xs[i] # xs[j]

(***************************************************************************)
(* The header functions, applied to bounded headers.                       *)
(***************************************************************************)
ColumnPool ==
    {NoPesanan, NomorReferensiSKU, StatusPesanan, Jumlah,
     SellerSKU, OrderID, Quantity, LongSkuCol, LongQtyCol,
     Seller, SKU, JumlahProduk, NamaProduk, PlatformOrderId, MyOrderID}

\* headers that hold "Seller SKU" and both long-form columns
ExampleHeaders ==
    {<<LongSkuCol, LongQtyCol, SellerSKU>>,
     <<SellerSKU, Quantity, LongSkuCol, LongQtyCol>>}

\* pandas keeps the labels of a header distinct
Headers ==
    {h \in SeqsUpTo(ColumnPool, MaxCols) : NoDuplicates(h)} \cup ExampleHeaders

InitHeaders ==
    /\ pc = "header"
    /\ file = <<>>
    /\ df \in {[columns |-> h, rows |-> <<>>] : h \in Headers}
    /\ platform = "unset"
    /\ col_mapping = NoMapping
    /\ grouped = NoTable
    /\ error = NoError
    /\ edited_grouped = NoTable
    /\ calls = {}

CallDetectPlatform ==
    /\ pc = "header"
    /\ platform' = detect_platform(df.columns)
    /\ pc' = "detected"
    /\ calls' = calls \cup {"detect_platform"}
    /\ UNCHANGED <<file, df, col_mapping, grouped, error, edited_grouped>>

CallGetColumnMapping ==
    /\ pc = "header"
    /\ \E p \in {"shopee", "tiktok", "None"} :
          /\ platform' = p
          /\ col_mapping' = get_column_mapping(p, df.columns)
    /\ pc' = "resolved"
    /\ calls' = calls \cup {"get_column_mapping"}
    /\ UNCHANGED <<file, df, grouped, error, edited_grouped>>

NextHeaders == CallDetectPlatform \/ CallGetColumnMapping

SpecHeaders == InitHeaders /\ [][NextHeaders]_vars

(***************************************************************************)
(* process_file, applied to bounded tables.                                *)
(***************************************************************************)
A1 == <<"A","1">>
A2 == <<"A","2">>
B10 == <<"B","1","0">>
\* blank, "", "A1", "B10"
SkuCells == {NaN, Text(<<>>), Text(A1), Text(B10)}
\* 10, "abc", blank, "-2.5"
QtyCells ==
    {Num(100), Text(<<"a","b","c">>), NaN, Text(<<"-","2",".","5">>)}

SkuQtyRows == {<<s, q>> : s \in SkuCells, q \in QtyCells}
QtySkuRows == {<<q, s>> : s \in SkuCells, q \in QtyCells}

\* the table of section 8: quantities "10", "abc", "", "5" under SKU "X"
ExampleX ==
    [columns |-> <<NomorReferensiSKU, Jumlah>>,
     rows |-> << <<Text(<<"X">>), Text(<<"1","0">>)>>,
                 <<Text(<<"X">>), Text(<<"a","b","c">>)>>,
                 <<Text(<<"X">>), Text(<<>>)>>,
                 <<Text(<<"X">>), Text(<<"5">>)>> >>]

\* the table of section 8: rows ("", 3), ("A", 2)
ExampleEmptySku ==
    [columns |-> <<NomorReferensiSKU, Jumlah>>,
     rows |-> << <<Text(<<>>), Num(30)>>, <<Text(<<"A">>), Num(20)>> >>]

\* the table of section 8: SKUs "B10", "A2", "A1", each with quantity 1
ExampleSort ==
    [columns |-> <<NomorReferensiSKU, Jumlah>>,
     rows |-> << <<Text(B10), Num(10)>>, <<Text(A2), Num(10)>>,
                 <<Text(A1), Num(10)>> >>]

\* SKUs that differ in case or in a leading blank only
VariantRows ==
    {<<Text(s), Num(10)>> : s \in {A1, <<"a","1">>, <<" ","A","1">>}}

AggregateInputs ==
    {[df |-> [columns |-> <<NomorReferensiSKU, Jumlah>>, rows |-> r],
      platform |-> "shopee", col_mapping |-> ShopeeMapping] :
        r \in SeqsUpTo(SkuQtyRows, MaxRows)}
    \cup
    {[df |-> [columns |-> <<Quantity, SellerSKU>>, rows |-> r],
      platform |-> "tiktok", col_mapping |-> ShortMapping] :
        r \in SeqsUpTo(QtySkuRows, MaxDataRows)}
    \cup
    {[df |-> [columns |-> c, rows |-> r],
      platform |-> "shopee", col_mapping |-> ShopeeMapping] :
        c \in {<<NomorReferensiSKU, NamaProduk>>, <<NamaProduk, Jumlah>>},
        r \in SeqsUpTo(SkuQtyRows, MaxDataRows)}
    \cup
    {[df |-> [columns |-> <<NomorReferensiSKU, Jumlah>>, rows |-> r],
      platform |-> "shopee", col_mapping |-> ShopeeMapping] :
        r \in SeqsUpTo(VariantRows, MaxRows)}
    \cup
    {[df |-> t, platform |-> "shopee", col_mapping |-> ShopeeMapping] :
        t \in {ExampleX, ExampleEmptySku, ExampleSort}}

InitAggregate ==
    /\ pc = "table"
    /\ file = <<>>
    /\ \E in \in AggregateInputs :
          /\ df = in.df
          /\ platform = in.platform
          /\ col_mapping = in.col_mapping
    /\ grouped = NoTable
    /\ error = NoError
    /\ edited_grouped = NoTable
    /\ calls = {}

CallProcessFile ==
    /\ pc = "table"
    /\ LET r == process_file(df, platform, col_mapping) IN
          /\ grouped' = r.grouped
          /\ error' = r.error
    /\ pc' = "returned"
    /\ calls' = calls \cup {"process_file"}
    /\ UNCHANGED <<file, df, platform, col_mapping, edited_grouped>>

NextAggregate == CallProcessFile

SpecAggregate == InitAggregate /\ [][NextAggregate]_vars

(***************************************************************************)
(* The run of the script over an uploaded sheet (lines 137-276).           *)
(*                                                                         *)
(* The sheets of the model are two columns wide and start with two rows of *)
(* distinct, non-empty text: the header, and the row that is the header    *)
(* once the sheet is read again with skiprows=1 (a TikTok export carries   *)
(* its column descriptions there; in a Shopee export it is the first row   *)
(* of data).  pandas takes such cells as column labels unchanged.          *)
(***************************************************************************)
\* "Format file tidak dikenali. ..." (line 144)
FormatNotRecognized == [kind |-> "format not recognized", col |-> <<>>]
\* "Tidak dapat menemukan kolom SKU dan Quantity yang sesuai." (line 166)
MappingNotFound == [kind |-> "mapping not found", col |-> <<>>]

SheetLabels ==
    {NomorReferensiSKU, Jumlah, SellerSKU, Quantity, JumlahProduk,
     NamaProduk, PlatformOrderId}
SecondRowTexts ==
    {LongSkuCol, LongQtyCol, SellerSKU, A1, <<"-","3">>}
\* "A1", "20": a sheet that stores its numbers as text
DataCells == {Text(A1), Text(<<"2","0">>)}

TextRows(S) == {<<Text(a), Text(b)>> : a \in S, b \in S} \ {<<Text(a), Text(a)>> : a \in S}

Sheets ==
    {<<h, d>> \o rest :
        h \in TextRows(SheetLabels),
        d \in TextRows(SecondRowTexts),
        rest \in SeqsUpTo(DataCells \X DataCells, MaxDataRows)}

Labels(row) == [i \in DOMAIN row |-> row[i].s]

\* pd.read_excel(uploaded_file): the top row is the header
read_excel(sheet) == [columns |-> Labels(sheet[1]), rows |-> Tail(sheet)]

\* pd.read_excel(uploaded_file, skiprows=1, header=0): the second row is
\* the header
read_excel_skiprows1(sheet) ==
    [columns |-> Labels(sheet[2]), rows |-> Tail(Tail(sheet))]

Init ==
    /\ pc = "idle"
    /\ file = <<>>
    /\ df = EmptyDf
    /\ platform = "unset"
    /\ col_mapping = NoMapping
    /\ grouped = NoTable
    /\ error = NoError
    /\ edited_grouped = NoTable
    /\ calls = {}

\* a sheet is uploaded: the script runs from the top
Upload ==
    /\ pc = "idle"
    /\ file' \in Sheets
    /\ pc' = "uploaded"
    /\ UNCHANGED <<df, platform, col_mapping, grouped, error, edited_grouped,
                   calls>>

\* lines 140-157: the platform is detected; unrecognized ends the run,
\* otherwise the sheet is read again as the platform asks
DetectStep ==
    /\ pc = "uploaded"
    /\ LET df_detect == read_excel(file)
           p == detect_platform(df_detect.columns)
       IN /\ platform' = p
          /\ IF p = "None"
             THEN /\ error' = FormatNotRecognized
                  /\ pc' = "done"
                  /\ df' = df
             ELSE /\ df' = IF p = "tiktok" THEN read_excel_skiprows1(file)
                                           ELSE read_excel(file)
                  /\ pc' = "resolve"
                  /\ error' = error
    /\ calls' = calls \cup {"detect_platform"}
    /\ UNCHANGED <<file, col_mapping, grouped, edited_grouped>>

\* lines 163-166
ResolveStep ==
    /\ pc = "resolve"
    /\ LET m == get_column_mapping(platform, df.columns) IN
          /\ col_mapping' = m
          /\ IF ~m.some
             THEN error' = MappingNotFound /\ pc' = "done"
             ELSE error' = error /\ pc' = "process"
    /\ calls' = calls \cup {"get_column_mapping"}
    /\ UNCHANGED <<file, df, platform, grouped, edited_grouped>>

\* lines 169-196: the table is computed and shown in the editor, or the
\* error is reported
ProcessStep ==
    /\ pc = "process"
    /\ LET r == process_file(df, platform, col_mapping) IN
          IF r.error # NoError
          THEN /\ error' = r.error
               /\ pc' = "done"
               /\ UNCHANGED <<grouped, edited_grouped>>
          ELSE /\ grouped' = r.grouped
               /\ edited_grouped' = r.grouped
               /\ pc' = "shown"
               /\ error' = error
    /\ calls' = calls \cup {"process_file"}
    /\ UNCHANGED <<file, df, platform, col_mapping>>

\* st.data_editor (lines 187-196): the user types a quantity into a row;
\* "Seller SKU" is disabled, num_rows is "fixed", Quantity has min_value=0
\* and step=1.  (The rerun of the script computes the same grouped.)
Edit ==
    /\ pc = "shown"
    /\ \E i \in DOMAIN edited_grouped.rows, v \in 0..MaxEditQty :
          edited_grouped' =
              [edited_grouped EXCEPT !.rows[i].qty = v]
    /\ UNCHANGED <<pc, file, df, platform, col_mapping, grouped, error, calls>>

\* the sheet is taken away: the page is as at the start
Clear ==
    /\ pc \in {"done", "shown"}
    /\ pc' = "idle"
    /\ file' = <<>>
    /\ df' = EmptyDf
    /\ platform' = "unset"
    /\ col_mapping' = NoMapping
    /\ grouped' = NoTable
    /\ error' = NoError
    /\ edited_grouped' = NoTable
    /\ calls' = {}

Next ==
    \/ Upload
    \/ DetectStep
    \/ ResolveStep
    \/ ProcessStep
    \/ Edit
    \/ Clear

Spec == Init /\ [][Next]_vars

(***************************************************************************)
(* What the claims about process_file speak of.                            *)
(***************************************************************************)
Returned == pc = "returned" /\ grouped.some
SkuAt(r) == ColumnOf(df, col_mapping.sku)[r]
QtyAt(r) == ColumnOf(df, col_mapping.quantity)[r]
\* a SKU cell that is neither missing nor the empty text
NonEmptySku(cell) == cell.t = "text" /\ Len(cell.s) > 0
\* a quantity cell that parses as a number
Parses(cell) == to_numeric(cell).t = "num"

\* the sum of F(r) over the rows r of a set
RECURSIVE SumOver(_, _)
SumOver(R, f) ==
    IF R = {} THEN 0
    ELSE LET r == CHOOSE x \in R : TRUE IN f[r] + SumOver(R \ {r}, f)

SummarySkus == {grouped.rows[g].sku : g \in DOMAIN grouped.rows}
SummaryTotal ==
    SumOver(DOMAIN grouped.rows, [g \in DOMAIN grouped.rows |-> grouped.rows[g].qty])
RowsOfSku(key) == {r \in DOMAIN df.rows : SkuAt(r) = Text(key)}
IncludedRows == {r \in DOMAIN df.rows : NonEmptySku(SkuAt(r))}
\* the quantity of a row as an integer, 0 when it does not parse
ParsedOrZero ==
    [r \in DOMAIN df.rows |->
        IF Parses(QtyAt(r)) THEN astype_int(to_numeric(QtyAt(r))) ELSE 0]
CoercedQty == [r \in DOMAIN df.rows |-> coerce_quantity(QtyAt(r))]

\* a < b, text by text: equal up to a place where a ends or holds the
\* smaller code point
LexLess(a, b) ==
    \E k \in 1..(Len(b)) :
        /\ k <= Len(a) + 1
        /\ \A j \in 1..(k - 1) : a[j] = b[j]
        /\ (k = Len(a) + 1 \/ Ord(a[k]) < Ord(b[k]))

\* C6: a quantity cell that does not parse counts as 0 and its row is
\* kept: every SKU of a row with a non-empty SKU is in the summary, with
\* the sum of the quantities of its rows that parse (as integers); a SKU
\* none of whose quantities parses is there with 0; no error is reported.
C6_UnparseableCountsAsZero ==
    Returned =>
        /\ error = NoError
        /\ \A r \in IncludedRows :
              \E g \in DOMAIN grouped.rows :
                 /\ grouped.rows[g].sku = SkuAt(r).s
                 /\ grouped.rows[g].qty = SumOver(RowsOfSku(SkuAt(r).s), ParsedOrZero)

\* quantities "10", "abc", "", "5" under "X" give the single row ("X", 15)
C6_Witness ==
    /\ Returned
    /\ df = ExampleX
    /\ grouped.rows = << [sku |-> <<"X">>, qty |-> 15] >>

\* C7: the SKUs of the summary are exactly the non-empty SKUs of the
\* table: none is empty, a row with a missing or empty SKU adds nothing
\* to the quantities, and every row with a non-empty SKU is counted.
C7_EmptySkuExcluded ==
    Returned =>
        /\ SummarySkus = {SkuAt(r).s : r \in IncludedRows}
        /\ <<>> \notin SummarySkus
        /\ SummaryTotal = SumOver(IncludedRows, CoercedQty)

\* rows ("", 3), ("A", 2) give exactly ("A", 2)
C7_Witness ==
    /\ Returned
    /\ df = ExampleEmptySku
    /\ grouped.rows = << [sku |-> <<"A">>, qty |-> 2] >>

C9_QuantityConserved ==
    Returned =>
        /\ \A g \in DOMAIN grouped.rows :
              grouped.rows[g].qty
                 = SumOver(RowsOfSku(grouped.rows[g].sku), CoercedQty)
        /\ SummaryTotal = SumOver(IncludedRows, CoercedQty)

\* two rows of one SKU are summed, beside a SKU that differs in case only
C9_Witness ==
    /\ Returned
    /\ Len(df.rows) = 3
    /\ grouped.rows = << [sku |-> A1, qty |-> 2], [sku |-> <<"a","1">>, qty |-> 1] >>

(***************************************************************************)
(* What the claims about the header functions speak of.                    *)
(***************************************************************************)
ShopeeIndicatorSet == {NoPesanan, NomorReferensiSKU, StatusPesanan, Jumlah}
TikTokIndicatorSet == {SellerSKU, OrderID, SellerSkuInput, SKUSoldQuantity}
\* some column of the header is exactly a Shopee indicator
HasShopeeColumn(columns) ==
    \E i \in DOMAIN columns : columns[i] \in ShopeeIndicatorSet
\* the text of all columns contains a TikTok indicator
TextHasTikTokIndicator(columns) ==
    \E ind \in TikTokIndicatorSet : InStr(ind, JoinSpace(columns))

\* C1: a header with a Shopee indicator as one of its columns is detected
\* as Shopee, whatever its other columns are, also when its text contains
\* a TikTok indicator.
C1_ShopeeColumnMeansShopee ==
    (pc = "detected" /\ HasShopeeColumn(df.columns)) => platform = "shopee"

\* "Nomor Referensi SKU" beside "Seller SKU" is Shopee
C1_Witness ==
    /\ pc = "detected"
    /\ df.columns = <<SellerSKU, NomorReferensiSKU>>
    /\ TextHasTikTokIndicator(df.columns)
    /\ platform = "shopee"

\* C2: a header none of whose columns is exactly a Shopee indicator and
\* whose text contains a TikTok indicator is detected as TikTok.
C2_TikTokSubstringMeansTikTok ==
    (/\ pc = "detected"
     /\ ~HasShopeeColumn(df.columns)
     /\ TextHasTikTokIndicator(df.columns)) => platform = "tiktok"

\* a long column that merely contains "Seller sku input by the seller"
C2_Witness ==
    /\ pc = "detected"
    /\ df.columns = <<JumlahProduk, LongSkuCol>>
    /\ ~InList(SellerSkuInput, df.columns)
    /\ platform = "tiktok"

\* C5: for TikTok, a header that holds "Seller SKU" resolves to the short
\* form ("Seller SKU", "Quantity"), the long-form columns being there or
\* not; the long form is returned exactly when "Seller SKU" is not there.
C5_ShortFormPreferred ==
    (pc = "resolved" /\ platform = "tiktok") =>
        /\ InList(SellerSKU, df.columns) => col_mapping = ShortMapping
        /\ ~InList(SellerSKU, df.columns) => col_mapping = LongMapping
        /\ ShortMapping # LongMapping

\* "Seller SKU" together with both long-form columns
C5_Witness ==
    /\ pc = "resolved"
    /\ platform = "tiktok"
    /\ df.columns = <<LongSkuCol, LongQtyCol, SellerSKU>>
    /\ col_mapping = ShortMapping

(***************************************************************************)
(* What the claims about the run speak of.                                 *)
(***************************************************************************)
Detected == pc \notin {"idle", "uploaded"}
Processed == pc \in {"shown", "done"} /\ "process_file" \in calls
SheetHeader == Labels(file[1])

\* C3: a header that matches neither indicator set is detected as unknown,
\* and the run ends there with the 'format not recognized' report: neither
\* get_column_mapping nor process_file is called and there is no table.
C3_UnknownEndsTheRun ==
    (/\ Detected
     /\ ~HasShopeeColumn(SheetHeader)
     /\ ~TextHasTikTokIndicator(SheetHeader)) =>
        /\ platform = "None"
        /\ pc = "done"
        /\ error = FormatNotRecognized
        /\ calls = {"detect_platform"}
        /\ ~grouped.some
        /\ ~edited_grouped.some

C3_Witness ==
    /\ pc = "done"
    /\ SheetHeader = <<JumlahProduk, Quantity>>
    /\ platform = "None"
    /\ error = FormatNotRecognized

\* C4, as claimed: for Shopee, a header without "Jumlah" makes
\* get_column_mapping fail: it returns no mapping.
C4_ResolveFailsWithoutJumlah ==
    (/\ "get_column_mapping" \in calls
     /\ platform = "shopee"
     /\ ~InList(Jumlah, df.columns)) => ~col_mapping.some

\* C4, amended: for Shopee, get_column_mapping returns the fixed mapping
\* whatever the header holds; when the header holds "Nomor Referensi SKU"
\* and not "Jumlah", it is process_file that fails, with the error that
\* names the quantity column "Jumlah", and there is no table.
C4_ProcessFileReportsMissingQuantity ==
    /\ ("get_column_mapping" \in calls /\ platform = "shopee")
          => col_mapping = ShopeeMapping
    /\ (/\ Processed
        /\ platform = "shopee"
        /\ InList(NomorReferensiSKU, df.columns)
        /\ ~InList(Jumlah, df.columns)) =>
           /\ pc = "done"
           /\ error = QuantityColumnNotFound(Jumlah)
           /\ ~grouped.some
           /\ ~edited_grouped.some

C4_Witness ==
    /\ pc = "done"
    /\ platform = "shopee"
    /\ df.columns = <<NomorReferensiSKU, JumlahProduk>>
    /\ col_mapping = ShopeeMapping
    /\ error = QuantityColumnNotFound(Jumlah)

\* C10: every table the run shows, as process_file made it and after any
\* edits, has in every row a non-empty SKU and a quantity that is at least
\* 0, and the edits leave the SKUs and their order as they were.
C10_SummaryRowsWellFormed ==
    pc = "shown" =>
        /\ \A i \in DOMAIN edited_grouped.rows :
              /\ Len(edited_grouped.rows[i].sku) > 0
              /\ edited_grouped.rows[i].qty >= 0
        /\ [i \in DOMAIN edited_grouped.rows |-> edited_grouped.rows[i].sku]
             = [i \in DOMAIN grouped.rows |-> grouped.rows[i].sku]

=============================================================================
